---- MODULE Spec2Model ----
(***************************************************************************)
(* Job scheduling and lifecycle engine of the queue adapters:              *)
(* MemoryQueueAdapter (jobs held in a Map of Job objects) and              *)
(* RedisQueueAdapter (jobs held as string hashes, with per-type waiting    *)
(* lists and delayed/active/completed/failed sorted sets).                 *)
(*                                                                         *)
(* One step of the model is one JavaScript task: a public call, one firing *)
(* of the setInterval callback together with the microtasks it queues, or  *)
(* the settlement of one handler promise together with the bookkeeping     *)
(* that follows it.  The store operations of the Redis adapter resolve     *)
(* without suspending, so no other task runs between two of them.          *)
(***************************************************************************)
EXTENDS Integers, Sequences, FiniteSets, TLC

\* ------------------------------------------------------------------ bounds
MaxJobs == 2
MaxTime == 1
MaxPriority == 1
MaxDelay == 1
MaxConcurrency == 2
MaxAttempts == 2

\* ------------------------------------------------------- program constants
DefaultConcurrency == 1
NoDate == -1

Ids == 1..MaxJobs
Types == {"a", "b"}
Priorities == 0..MaxPriority
Delays == {0, MaxDelay}
Adapters == {"memory", "redis"}
HandlerFns == {"h1"}
NoReason == "<undefined>"

\* What a handler invocation settles with: it resolves, or it rejects with
\* an Error carrying a message, or with a value that is no Error.
Outcomes ==
    { [kind |-> "resolve", msg |-> ""],
      [kind |-> "error", msg |-> "Test error"],
      [kind |-> "error", msg |-> ""],
      [kind |-> "undefined", msg |-> ""] }

VARIABLES
    adapter,      \* which adapter class was constructed
    concurrency,  \* queueConfig.concurrency
    now,          \* Date.now()
    nextId,       \* number of ids generated so far
    jobs,         \* MemoryQueueAdapter.jobs : id -> Job
    data,         \* redis.data : id -> hash of strings
    lists,        \* redis.lists : type -> waiting list of ids
    zDelayed,     \* redis.sortedSets[delayed] : sequence of <<id, score>>
    zActive,      \* redis.sortedSets[active]
    zCompleted,   \* redis.sortedSets[completed]
    zFailed,      \* redis.sortedSets[failed]
    handlers,     \* handlers Map, in insertion order : sequence of [type, fn]
    processing,   \* processing Set
    isPaused,
    isRunning,
    inflight,     \* handler invocations started and not settled : id -> local Job
    removed,      \* ids for which remove() has returned true
    threw         \* the last step was a call that threw before reaching the adapter

vars == << adapter, concurrency, now, nextId, jobs, data, lists, zDelayed,
           zActive, zCompleted, zFailed, handlers, processing, isPaused,
           isRunning, inflight, removed, threw >>

redisVars == << data, lists, zDelayed, zActive, zCompleted, zFailed >>

\* ----------------------------------------------------------- small helpers
Truthy(s) == s # "" /\ s # NoReason

RemoveKey(f, k) == [x \in DOMAIN f \ {k} |-> f[x]]

PutKey(f, k, v) == [x \in DOMAIN f \cup {k} |-> IF x = k THEN v ELSE f[x]]

RECURSIVE FilterSeq(_, _)
FilterSeq(s, keep) ==
    IF s = << >> THEN << >>
    ELSE IF Head(s) \in keep THEN << Head(s) >> \o FilterSeq(Tail(s), keep)
         ELSE FilterSeq(Tail(s), keep)

\* Array.from(set of ids) in Map insertion order: ids are generated in
\* increasing order and a key is never set twice.
RECURSIVE IdsInOrder(_, _)
IdsInOrder(S, i) ==
    IF i > MaxJobs THEN << >>
    ELSE IF i \in S THEN << i >> \o IdsInOrder(S, i + 1)
         ELSE IdsInOrder(S, i + 1)

SeqToSet(s) == { s[k] : k \in 1..Len(s) }

\* ---------------------------------------------------------------- handlers
HandlerTypes == { handlers[k].type : k \in 1..Len(handlers) }

HandlerKeys == [k \in 1..Len(handlers) |-> handlers[k].type]

HandlersGet(t) ==
    LET k == CHOOSE k \in 1..Len(handlers) : handlers[k].type = t
    IN handlers[k].fn

HandlersSetFirstWins(t, fn) ==
    IF t \in HandlerTypes THEN handlers
    ELSE Append(handlers, [type |-> t, fn |-> fn])

\* Map.set: an existing key keeps its position, a new key goes last.
HandlersSet(t, fn) ==
    IF t \in HandlerTypes
    THEN [k \in 1..Len(handlers) |->
            IF handlers[k].type = t THEN [type |-> t, fn |-> fn] ELSE handlers[k]]
    ELSE Append(handlers, [type |-> t, fn |-> fn])

ConcurrencyLimitPlusOne == concurrency + 1

ConcurrencyLimit == IF concurrency = 0 THEN DefaultConcurrency ELSE concurrency

AtCapacityOffByOne == Cardinality(processing) > ConcurrencyLimit

AtCapacity == Cardinality(processing) >= ConcurrencyLimit

\* error instanceof Error ? error.message : String(error)
FailedReasonOf(o) == IF o.kind = "error" THEN o.msg ELSE "undefined"

LoopGateIgnoresPause == isRunning

\* the condition of the setInterval callback
LoopGate == ~isPaused /\ isRunning

\* ------------------------------------------------------ MemoryQueueAdapter
NewJob(type, priority, delay) ==
    [ type |-> type, priority |-> priority, delay |-> delay, createdAt |-> now,
      attempts |-> 0, processedAt |-> NoDate, completedAt |-> NoDate,
      failedReason |-> NoReason ]

mGetJobStatusNoDelay(job, id) ==
    IF Truthy(job.failedReason) THEN "failed"
    ELSE IF job.completedAt # NoDate THEN "completed"
    ELSE IF id \in processing THEN "active"
    ELSE "waiting"

mGetJobStatus(job, id) ==
    IF Truthy(job.failedReason) THEN "failed"
    ELSE IF job.completedAt # NoDate THEN "completed"
    ELSE IF id \in processing THEN "active"
    ELSE IF job.delay > 0 /\ now - job.createdAt < job.delay THEN "delayed"
    ELSE "waiting"

mGetJobs(status) ==
    FilterSeq(IdsInOrder(DOMAIN jobs, 1),
              { i \in DOMAIN jobs : mGetJobStatus(jobs[i], i) = status })

\* Array.prototype.sort with (a, b) => b.priority - a.priority: stable, so an
\* element goes after every element whose priority is at least its own.
RECURSIVE InsertByPriority(_, _)
InsertByPriority(sorted, i) ==
    IF sorted = << >> THEN << i >>
    ELSE IF jobs[Head(sorted)].priority >= jobs[i].priority
         THEN << Head(sorted) >> \o InsertByPriority(Tail(sorted), i)
         ELSE << i >> \o sorted

RECURSIVE SortUpTo(_, _)
SortUpTo(s, n) ==
    IF n = 0 THEN << >> ELSE InsertByPriority(SortUpTo(s, n - 1), s[n])

SortUnsorted(s) == s

SortByPriorityDesc(s) == SortUpTo(s, Len(s))

mAdd(type, priority, delay) ==
    /\ adapter = "memory"
    /\ nextId < MaxJobs
    /\ nextId' = nextId + 1
    /\ jobs' = PutKey(jobs, nextId + 1, NewJob(type, priority, delay))
    /\ threw' = FALSE
    /\ UNCHANGED << adapter, concurrency, now, redisVars, handlers, processing,
                    isPaused, isRunning, inflight, removed >>

mProcess(type, fn) ==
    /\ adapter = "memory"
    /\ handlers' = HandlersSet(type, fn)
    /\ threw' = FALSE
    /\ UNCHANGED << adapter, concurrency, now, nextId, jobs, redisVars, processing,
                    isPaused, isRunning, inflight, removed >>

mRemove(id) ==
    /\ adapter = "memory"
    /\ jobs' = RemoveKey(jobs, id)
    /\ removed' = IF id \in DOMAIN jobs THEN removed \cup {id} ELSE removed
    /\ threw' = FALSE
    /\ UNCHANGED << adapter, concurrency, now, nextId, redisVars, handlers, processing,
                    isPaused, isRunning, inflight >>

mPauseToggles ==
    /\ adapter = "memory"
    /\ isPaused' = ~isPaused
    /\ threw' = FALSE
    /\ UNCHANGED << adapter, concurrency, now, nextId, jobs, redisVars, handlers,
                    processing, isRunning, inflight, removed >>

mPause ==
    /\ adapter = "memory"
    /\ isPaused' = TRUE
    /\ threw' = FALSE
    /\ UNCHANGED << adapter, concurrency, now, nextId, jobs, redisVars, handlers,
                    processing, isRunning, inflight, removed >>

mResume ==
    /\ adapter = "memory"
    /\ isPaused' = FALSE
    /\ threw' = FALSE
    /\ UNCHANGED << adapter, concurrency, now, nextId, jobs, redisVars, handlers,
                    processing, isRunning, inflight, removed >>

mClose ==
    /\ adapter = "memory"
    /\ isRunning' = FALSE
    /\ jobs' = << >>
    /\ handlers' = << >>
    /\ processing' = {}
    /\ threw' = FALSE
    /\ UNCHANGED << adapter, concurrency, now, nextId, redisVars, isPaused, inflight,
                    removed >>

\* processNextJob up to its await: the job it starts a handler for, if any
mNextJobs == SortByPriorityDesc(mGetJobs("waiting"))

mProcessNextJob ==
    IF AtCapacity \/ mNextJobs = << >> \/ jobs[Head(mNextJobs)].type \notin HandlerTypes
    THEN UNCHANGED << jobs, processing, inflight >>
    ELSE LET id == Head(mNextJobs)
             job == [jobs[id] EXCEPT !.processedAt = now, !.attempts = @ + 1]
         IN /\ jobs[id].attempts < MaxAttempts
            /\ processing' = processing \cup {id}
            /\ jobs' = [jobs EXCEPT ![id] = job]
            /\ inflight' = PutKey(inflight, id, [fn |-> HandlersGet(job.type), job |-> job])

mTick ==
    /\ adapter = "memory"
    /\ isRunning
    /\ IF LoopGate THEN mProcessNextJob ELSE UNCHANGED << jobs, processing, inflight >>
    /\ threw' = FALSE
    /\ UNCHANGED << adapter, concurrency, now, nextId, redisVars, handlers, isPaused,
                    isRunning, removed >>

mSettleWithoutFinally(id, o) ==
    /\ adapter = "memory"
    /\ id \in DOMAIN inflight
    /\ LET job == inflight[id].job
           done == IF o.kind = "resolve"
                   THEN [job EXCEPT !.completedAt = now]
                   ELSE [job EXCEPT !.failedReason = FailedReasonOf(o)]
       IN jobs' = IF id \in DOMAIN jobs THEN [jobs EXCEPT ![id] = done] ELSE jobs
    /\ processing' = IF o.kind = "resolve" THEN processing \ {id} ELSE processing
    /\ inflight' = RemoveKey(inflight, id)
    /\ threw' = FALSE
    /\ UNCHANGED << adapter, concurrency, now, nextId, redisVars, handlers, isPaused,
                    isRunning, removed >>

\* the handler promise of job id settles with o: the rest of processNextJob
mSettle(id, o) ==
    /\ adapter = "memory"
    /\ id \in DOMAIN inflight
    /\ LET job == inflight[id].job
           done == IF o.kind = "resolve"
                   THEN [job EXCEPT !.completedAt = now]
                   ELSE [job EXCEPT !.failedReason = FailedReasonOf(o)]
       IN jobs' = IF id \in DOMAIN jobs THEN [jobs EXCEPT ![id] = done] ELSE jobs
    /\ processing' = processing \ {id}
    /\ inflight' = RemoveKey(inflight, id)
    /\ threw' = FALSE
    /\ UNCHANGED << adapter, concurrency, now, nextId, redisVars, handlers, isPaused,
                    isRunning, removed >>

\* time passes
Advance ==
    /\ now < MaxTime
    /\ now' = now + 1
    /\ threw' = FALSE
    /\ UNCHANGED << adapter, concurrency, nextId, jobs, redisVars, handlers, processing,
                    isPaused, isRunning, inflight, removed >>

\* ------------------------------------------------------- RedisQueueAdapter
\* Strings of the stored hash: String(n) and Date.toISOString() are written
\* << n >>, the empty string << >>.
Str(n) == << n >>

ParseInt(str) == IF str = << >> THEN 0 ELSE str[1]

DateStr(d) == IF d = NoDate THEN << >> ELSE << d >>

ParseDate(str) == IF str = << >> THEN NoDate ELSE str[1]

serializeJobWithoutAttempts(job) ==
    [ type |-> job.type,
      attempts |-> Str(0),
      delay |-> Str(job.delay),
      priority |-> Str(job.priority),
      createdAt |-> DateStr(job.createdAt),
      processedAt |-> DateStr(job.processedAt),
      completedAt |-> DateStr(job.completedAt),
      failedReason |-> IF Truthy(job.failedReason) THEN job.failedReason ELSE "" ]

serializeJob(job) ==
    [ type |-> job.type,
      attempts |-> Str(job.attempts),
      delay |-> Str(job.delay),
      priority |-> Str(job.priority),
      createdAt |-> DateStr(job.createdAt),
      processedAt |-> DateStr(job.processedAt),
      completedAt |-> DateStr(job.completedAt),
      failedReason |-> IF Truthy(job.failedReason) THEN job.failedReason ELSE "" ]

deserializeJob(h) ==
    [ type |-> h.type,
      attempts |-> ParseInt(h.attempts),
      delay |-> ParseInt(h.delay),
      priority |-> ParseInt(h.priority),
      createdAt |-> ParseDate(h.createdAt),
      processedAt |-> ParseDate(h.processedAt),
      completedAt |-> ParseDate(h.completedAt),
      failedReason |-> IF h.failedReason # "" THEN h.failedReason ELSE NoReason ]

\* getJob(id) is null exactly when the hash is absent
rHasJob(store, id) == id \in DOMAIN store

rGetJob(store, id) == deserializeJob(store[id])

\* list.indexOf + splice: removes the first occurrence
RECURSIVE RemoveFromList(_, _)
RemoveFromList(list, id) ==
    IF list = << >> THEN << >>
    ELSE IF Head(list) = id THEN Tail(list)
         ELSE << Head(list) >> \o RemoveFromList(Tail(list), id)

\* sorted set as a Map member -> score, in insertion order
ZMembers(z) == { z[k].id : k \in 1..Len(z) }

ZAdd(z, id, score) ==
    IF id \in ZMembers(z)
    THEN [k \in 1..Len(z) |-> IF z[k].id = id THEN [id |-> id, score |-> score] ELSE z[k]]
    ELSE Append(z, [id |-> id, score |-> score])

ZRemKeepsMember(z, id) == z

RECURSIVE ZRem(_, _)
ZRem(z, id) ==
    IF z = << >> THEN << >>
    ELSE IF Head(z).id = id THEN ZRem(Tail(z), id)
         ELSE << Head(z) >> \o ZRem(Tail(z), id)

RECURSIVE ZRangeByScore(_, _, _)
ZRangeByScore(z, min, max) ==
    IF z = << >> THEN << >>
    ELSE IF Head(z).score >= min /\ Head(z).score <= max
         THEN << Head(z).id >> \o ZRangeByScore(Tail(z), min, max)
         ELSE ZRangeByScore(Tail(z), min, max)

pushToListAtHead(ls, type, id) == [ls EXCEPT ![type] = << id >> \o @]

pushToList(ls, type, id) == [ls EXCEPT ![type] = Append(@, id)]

rAdd(type, priority, delay) ==
    /\ adapter = "redis"
    /\ nextId < MaxJobs
    /\ nextId' = nextId + 1
    /\ data' = PutKey(data, nextId + 1, serializeJob(NewJob(type, priority, delay)))
    /\ IF delay > 0
       THEN /\ zDelayed' = ZAdd(zDelayed, nextId + 1, now + delay)
            /\ UNCHANGED lists
       ELSE /\ lists' = pushToList(lists, type, nextId + 1)
            /\ UNCHANGED zDelayed
    /\ threw' = FALSE
    /\ UNCHANGED << adapter, concurrency, now, jobs, zActive, zCompleted, zFailed,
                    handlers, processing, isPaused, isRunning, inflight, removed >>

rProcess(type, fn) ==
    /\ adapter = "redis"
    /\ handlers' = HandlersSet(type, fn)
    /\ threw' = FALSE
    /\ UNCHANGED << adapter, concurrency, now, nextId, jobs, redisVars, processing,
                    isPaused, isRunning, inflight, removed >>

rRemoveKeepsRecord(id) ==
    /\ adapter = "redis"
    /\ data' = data
    /\ lists' = [t \in Types |->
                    IF t \in HandlerTypes THEN RemoveFromList(lists[t], id) ELSE lists[t]]
    /\ zDelayed' = ZRem(zDelayed, id)
    /\ zActive' = zActive \ {id}
    /\ removed' = IF id \in DOMAIN data THEN removed \cup {id} ELSE removed
    /\ threw' = FALSE
    /\ UNCHANGED << adapter, concurrency, now, nextId, jobs, zCompleted, zFailed,
                    handlers, processing, isPaused, isRunning, inflight >>

rRemove(id) ==
    /\ adapter = "redis"
    /\ data' = RemoveKey(data, id)
    /\ lists' = [t \in Types |->
                    IF t \in HandlerTypes THEN RemoveFromList(lists[t], id) ELSE lists[t]]
    /\ zDelayed' = ZRem(zDelayed, id)
    /\ zActive' = zActive \ {id}
    /\ removed' = IF id \in DOMAIN data THEN removed \cup {id} ELSE removed
    /\ threw' = FALSE
    /\ UNCHANGED << adapter, concurrency, now, nextId, jobs, zCompleted, zFailed,
                    handlers, processing, isPaused, isRunning, inflight >>

rPause ==
    /\ adapter = "redis"
    /\ isPaused' = TRUE
    /\ threw' = FALSE
    /\ UNCHANGED << adapter, concurrency, now, nextId, jobs, redisVars, handlers,
                    processing, isRunning, inflight, removed >>

rResume ==
    /\ adapter = "redis"
    /\ isPaused' = FALSE
    /\ threw' = FALSE
    /\ UNCHANGED << adapter, concurrency, now, nextId, jobs, redisVars, handlers,
                    processing, isRunning, inflight, removed >>

\* the mock client has no disconnect method, so only the loop is stopped
rClose ==
    /\ adapter = "redis"
    /\ isRunning' = FALSE
    /\ threw' = FALSE
    /\ UNCHANGED << adapter, concurrency, now, nextId, jobs, redisVars, handlers,
                    processing, isPaused, inflight, removed >>

\* processDelayedJobs: each due id whose record exists moves, in the order the
\* range query returned them, from the delayed set to its type's list
RECURSIVE Promote(_, _, _)
Promote(ready, ls, z) ==
    IF ready = << >> THEN [lists |-> ls, zDelayed |-> z]
    ELSE LET id == Head(ready)
         IN IF rHasJob(data, id)
            THEN Promote(Tail(ready), pushToList(ls, rGetJob(data, id).type, id), ZRem(z, id))
            ELSE Promote(Tail(ready), ls, z)

processDelayedJobs(ls) == Promote(ZRangeByScore(zDelayed, 0, now), ls, zDelayed)

rPoppableLastFirst ==
    LET p == FilterSeq(HandlerKeys, { t \in Types : lists[t] # << >> })
    IN [k \in 1..Len(p) |-> p[Len(p) + 1 - k]]

\* processNextJob: the handler types in Map order whose list is not empty
rPoppable == FilterSeq(HandlerKeys, { t \in Types : lists[t] # << >> })

\* One firing of the interval callback.  processNextJob pops before the first
\* microtask of processDelayedJobs runs, and with at most four handler types
\* every pop precedes every push of a promoted id, so the dispatch step sees
\* the lists as they were before this firing's promotion.
rTick ==
    /\ adapter = "redis"
    /\ isRunning
    /\ IF ~LoopGate
       THEN UNCHANGED << redisVars, processing, inflight >>
       ELSE IF AtCapacity \/ rPoppable = << >>
       THEN /\ lists' = processDelayedJobs(lists).lists
            /\ zDelayed' = processDelayedJobs(lists).zDelayed
            /\ UNCHANGED << data, zActive, processing, inflight >>
       ELSE LET type == Head(rPoppable)
                id == Head(lists[type])
                popped == [lists EXCEPT ![type] = Tail(@)]
            IN /\ lists' = processDelayedJobs(popped).lists
               /\ zDelayed' = processDelayedJobs(popped).zDelayed
               /\ IF ~rHasJob(data, id)
                  THEN UNCHANGED << data, zActive, processing, inflight >>
                  ELSE LET job == [rGetJob(data, id) EXCEPT
                                       !.processedAt = now, !.attempts = @ + 1]
                       IN /\ job.attempts <= MaxAttempts
                          /\ processing' = processing \cup {id}
                          /\ zActive' = zActive \cup {id}
                          /\ data' = PutKey(data, id, serializeJob(job))
                          /\ inflight' = PutKey(inflight, id,
                                                [fn |-> HandlersGet(type), job |-> job])
    /\ threw' = FALSE
    /\ UNCHANGED << adapter, concurrency, now, nextId, jobs, zCompleted, zFailed,
                    handlers, isPaused, isRunning, removed >>

\* the handler promise of job id settles with o: the rest of processJob
rSettle(id, o) ==
    /\ adapter = "redis"
    /\ id \in DOMAIN inflight
    /\ LET job == inflight[id].job
           done == IF o.kind = "resolve"
                   THEN [job EXCEPT !.completedAt = now]
                   ELSE [job EXCEPT !.failedReason = FailedReasonOf(o)]
       IN data' = PutKey(data, id, serializeJob(done))
    /\ zActive' = zActive \ {id}
    /\ IF o.kind = "resolve"
       THEN zCompleted' = zCompleted \cup {id} /\ UNCHANGED zFailed
       ELSE zFailed' = zFailed \cup {id} /\ UNCHANGED zCompleted
    /\ processing' = processing \ {id}
    /\ inflight' = RemoveKey(inflight, id)
    /\ threw' = FALSE
    /\ UNCHANGED << adapter, concurrency, now, nextId, jobs, lists, zDelayed,
                    handlers, isPaused, isRunning, removed >>

\* ----------------------------------------------------------- specifications
\* a freshly constructed adapter of one of the classes, with one of the
\* configured concurrency values
InitWith(classes, limits) ==
    /\ adapter \in classes
    /\ concurrency \in limits
    /\ now = 0
    /\ nextId = 0
    /\ jobs = << >>
    /\ data = << >>
    /\ lists = [t \in Types |-> << >>]
    /\ zDelayed = << >>
    /\ zActive = {}
    /\ zCompleted = {}
    /\ zFailed = {}
    /\ handlers = << >>
    /\ processing = {}
    /\ isPaused = FALSE
    /\ isRunning = TRUE
    /\ inflight = << >>
    /\ removed = {}
    /\ threw = FALSE

NextMem ==
    \/ \E t \in Types, p \in Priorities, d \in Delays : mAdd(t, p, d)
    \/ \E t \in Types, fn \in HandlerFns : mProcess(t, fn)
    \/ \E id \in Ids : mRemove(id)
    \/ mPause
    \/ mResume
    \/ mClose
    \/ mTick
    \/ \E id \in Ids, o \in Outcomes : mSettle(id, o)

NextRedis ==
    \/ \E t \in Types, p \in Priorities, d \in Delays : rAdd(t, p, d)
    \/ \E t \in Types, fn \in HandlerFns : rProcess(t, fn)
    \/ \E id \in Ids : rRemove(id)
    \/ rPause
    \/ rResume
    \/ rClose
    \/ rTick
    \/ \E id \in Ids, o \in Outcomes : rSettle(id, o)

Next == NextMem \/ NextRedis \/ Advance

NextMemory == NextMem \/ Advance

NextRedisOnly == NextRedis \/ Advance

\* either adapter, constructed with the default concurrency
Init == InitWith(Adapters, {DefaultConcurrency})

\* either adapter, constructed with any concurrency up to MaxConcurrency
InitConcurrent == InitWith(Adapters, 1..MaxConcurrency)

InitMem == InitWith({"memory"}, {DefaultConcurrency})

InitRedis == InitWith({"redis"}, {DefaultConcurrency})

Spec == Init /\ [][Next]_vars

SpecConcurrent == InitConcurrent /\ [][Next]_vars

SpecMem == InitMem /\ [][NextMemory]_vars

SpecRedis == InitRedis /\ [][NextRedisOnly]_vars

\* ------------------------------------------------- what a caller can observe
HasJob(id) == IF adapter = "memory" THEN id \in DOMAIN jobs ELSE rHasJob(data, id)

GetJob(id) == IF adapter = "memory" THEN jobs[id] ELSE rGetJob(data, id)

\* the ids getJobs(status) looks up, before their records are fetched
rStatusIds(status) ==
    CASE status = "waiting" -> UNION { SeqToSet(lists[t]) : t \in HandlerTypes }
      [] status = "delayed" -> ZMembers(zDelayed)
      [] status = "active" -> zActive
      [] status = "completed" -> zCompleted
      [] status = "failed" -> zFailed

rGetJobs(status) == { id \in rStatusIds(status) : rHasJob(data, id) }

ListJobs(status) ==
    IF adapter = "memory" THEN SeqToSet(mGetJobs(status)) ELSE rGetJobs(status)

InFlight == DOMAIN inflight

\* the step starts a handler invocation for job id
Dispatches(id) == id \notin InFlight /\ id \in InFlight'

Settles(id, o) == mSettle(id, o) \/ rSettle(id, o)

Removes(id) == mRemove(id) \/ rRemove(id)

ReadyToRun(id) ==
    /\ HasJob(id)
    /\ id \in ListJobs("waiting")
    /\ GetJob(id).type \in HandlerTypes

\* ------------------------------------------------------------------- claims

\* C1: the number of handler invocations started and not yet settled never
\* exceeds the configured concurrency, in either adapter.
ConcurrencyCeiling == Cardinality(InFlight) <= ConcurrencyLimit

\* C1 witness: the ceiling is what holds a runnable job back.
ConcurrencyCeilingWitness ==
    /\ LoopGate
    /\ Cardinality(InFlight) = ConcurrencyLimit
    /\ \E id \in Ids : ReadyToRun(id)

\* C2: when a tick of the in-memory adapter dispatches a job, no job that is
\* waiting at that moment has a strictly higher priority.
MemoryPriorityOrder ==
    [][\A id \in Ids :
         (adapter = "memory" /\ Dispatches(id)) =>
            \A other \in SeqToSet(mGetJobs("waiting")) :
               jobs[other].priority <= jobs[id].priority]_vars

\* C2 witness: a job was dispatched ahead of a waiting job submitted before it.
MemoryPriorityOrderWitness ==
    /\ adapter = "memory"
    /\ \E id \in InFlight, other \in Ids :
          /\ other < id
          /\ other \in DOMAIN jobs /\ id \in DOMAIN jobs
          /\ mGetJobStatus(jobs[other], other) = "waiting"
          /\ jobs[other].attempts = 0
          /\ jobs[other].createdAt + jobs[other].delay <= jobs[id].processedAt
          /\ jobs[other].type = jobs[id].type
          /\ jobs[other].priority < jobs[id].priority

\* C3: when a tick of the Redis adapter dispatches a job, no job still queued
\* in the same type's waiting list has a strictly higher priority.
RedisPriorityOrder ==
    [][\A id \in Ids :
         (adapter = "redis" /\ Dispatches(id)) =>
            \A other \in SeqToSet(lists[inflight'[id].job.type]) :
               rHasJob(data, other) =>
                  rGetJob(data, other).priority <= inflight'[id].job.priority]_vars

\* C4: a stored job with delay d > 0 submitted at t is, at any time before
\* t + d, listed as delayed, not listed as waiting, and has not been handed to
\* a handler.
DelayGating ==
    \A id \in Ids :
       (HasJob(id) /\ GetJob(id).delay > 0
          /\ now < GetJob(id).createdAt + GetJob(id).delay) =>
           /\ id \in ListJobs("delayed")
           /\ id \notin ListJobs("waiting")
           /\ id \notin InFlight
           /\ GetJob(id).attempts = 0
           /\ GetJob(id).processedAt = NoDate

\* C4 witness: a job submitted later was dispatched while an earlier job of the
\* same type and higher priority was still held back by its delay.
DelayGatingWitness ==
    \E id \in Ids, later \in Ids :
       /\ id < later
       /\ HasJob(id) /\ HasJob(later)
       /\ GetJob(id).delay > 0
       /\ now < GetJob(id).createdAt + GetJob(id).delay
       /\ GetJob(id).type = GetJob(later).type
       /\ GetJob(id).priority > GetJob(later).priority
       /\ GetJob(later).attempts > 0

\* C5: when a handler invocation rejects, the job is afterwards listed as
\* failed, with failedReason equal to the error's message (or the stringified
\* value) and completedAt unset.
FailureCapture ==
    [][\A id \in Ids, o \in Outcomes :
         (o.kind # "resolve" /\ Settles(id, o) /\ HasJob(id)) =>
            /\ HasJob(id)'
            /\ id \in ListJobs("failed")'
            /\ GetJob(id)'.failedReason = FailedReasonOf(o)
            /\ GetJob(id)'.completedAt = NoDate]_vars

\* C7: while the queue is paused no step starts a handler invocation.
PauseBlocksDispatch ==
    [][isPaused => \A id \in Ids : ~Dispatches(id)]_vars

\* C7 witness: paused, with a runnable job and a free slot.
PauseBlocksDispatchWitness ==
    /\ isPaused
    /\ isRunning
    /\ ~AtCapacity
    /\ \E id \in Ids : ReadyToRun(id) /\ GetJob(id).attempts = 0

\* C8: pause() leaves the flag set and resume() leaves it clear, whatever it
\* was before, and no other step changes it.
PauseResumeToggle ==
    [][/\ (mPause \/ rPause) => isPaused'
       /\ (mResume \/ rResume) => ~isPaused'
       /\ (isPaused' # isPaused) => (mPause \/ rPause \/ mResume \/ rResume)]_vars

\* C8 witness: paused while a handler invocation is in flight.
PauseResumeToggleWitness == isPaused /\ isRunning /\ InFlight # {}

\* C9: once remove(id) has returned true, getJob(id) finds nothing.
RemovalPermanent == \A id \in removed : ~HasJob(id)

\* C10: remove(id) returns true when a record exists, and for an id with no
\* record it returns false and changes nothing.
RemoveMissingIsNoOp ==
    [][\A id \in Ids :
         Removes(id) =>
            /\ HasJob(id) => id \in removed'
            /\ ~HasJob(id) => UNCHANGED vars]_vars

Terminal(id) == id \in ListJobs("completed") \/ id \in ListJobs("failed")

\* what happens without a further call from the user: the interval timer
\* fires, a started handler invocation settles, time passes
Progress ==
    \/ mTick
    \/ rTick
    \/ \E id \in Ids, o \in Outcomes : Settles(id, o)
    \/ Advance

\* C6: a stored job that is waiting and whose type has a handler eventually
\* is completed or failed while the queue runs unpaused; so it is never left
\* in a state where no tick, settlement or passing of time changes anything.
NoStuckReadyJob ==
    \A id \in Ids :
       (LoopGate /\ ReadyToRun(id) /\ ~Terminal(id)
          /\ GetJob(id).attempts < MaxAttempts) => ENABLED << Progress >>_vars

\* the step is a submit of a job of this type with these options
Adds(t, p, d) == mAdd(t, p, d) \/ rAdd(t, p, d)

\* C11: a submit stores a job with the given type, priority and delay, attempts
\* 0 and no processedAt, completedAt or failedReason; getJob returns those
\* field values, and the job is listed as delayed when its delay is positive
\* and as waiting otherwise.
SubmitRoundTrip ==
    [][\A t \in Types, p \in Priorities, d \in Delays :
         Adds(t, p, d) =>
            \E id \in Ids :
               /\ id = nextId + 1
               /\ HasJob(id)'
               /\ GetJob(id)' = NewJob(t, p, d)
               /\ id \in ListJobs(IF d > 0 THEN "delayed" ELSE "waiting")']_vars

\* ------------------------------------------------------------ Queue wrapper
\* An argument as a JavaScript value: what typeof gives for it, whether it is
\* truthy, and the value itself where the adapter uses it.
JsValue(ty, truthy, val) == [typeof |-> ty, truthy |-> truthy, val |-> val]

\* 'a', 'b', '' and 42
TypeArgs ==
    { JsValue("string", TRUE, t) : t \in Types }
       \cup { JsValue("string", FALSE, ""), JsValue("number", TRUE, "42") }

\* {}, null and 'x'
DataArgs ==
    { JsValue("object", TRUE, "{}"), JsValue("object", FALSE, "null"),
      JsValue("string", TRUE, "x") }

\* a function, undefined and {}
HandlerArgs ==
    { JsValue("function", TRUE, fn) : fn \in HandlerFns }
       \cup { JsValue("undefined", FALSE, "undefined"), JsValue("object", TRUE, "{}") }

\* the id of a job, '' and 1
IdArgs ==
    { JsValue("string", TRUE, i) : i \in Ids }
       \cup { JsValue("string", FALSE, 0), JsValue("number", TRUE, 1) }

Statuses == {"waiting", "active", "completed", "failed", "delayed"}

StatusArgs == Statuses \cup {"bogus"}

\* !x || typeof x !== ty
NotA(x, ty) == ~x.truthy \/ x.typeof # ty

adapterVars == << adapter, concurrency, now, nextId, jobs, data, lists, zDelayed,
                  zActive, zCompleted, zFailed, handlers, processing, isPaused,
                  isRunning, inflight, removed >>

\* the call throws at the wrapper's checks
Throws == threw' = TRUE /\ UNCHANGED adapterVars

\* the call reads from the adapter and returns
Returns == threw' = FALSE /\ UNCHANGED adapterVars

QAddInvalidTypeOnly(type, payload) == NotA(type, "string")

QAddInvalid(type, payload) == NotA(type, "string") \/ NotA(payload, "object")

\* the options argument left out: options.priority || 0 and options.delay || 0
OptionArgs == { [priority |-> 0, delay |-> 0] }

QAdd(type, payload, options) ==
    IF QAddInvalid(type, payload)
    THEN Throws
    ELSE Adds(type.val, options.priority, options.delay)

QProcess(type, handler) ==
    IF NotA(type, "string") \/ NotA(handler, "function")
    THEN Throws
    ELSE mProcess(type.val, handler.val) \/ rProcess(type.val, handler.val)

QRemove(jobId) == IF NotA(jobId, "string") THEN Throws ELSE Removes(jobId.val)

QGetJob(jobId) == IF NotA(jobId, "string") THEN Throws ELSE Returns

QGetJobs(status) == IF status \notin Statuses THEN Throws ELSE Returns

QPause == mPause \/ rPause

QResume == mResume \/ rResume

QClose == mClose \/ rClose

\* every call goes through the wrapper
NextQueue ==
    \/ \E type \in TypeArgs, payload \in DataArgs, options \in OptionArgs :
          QAdd(type, payload, options)
    \/ \E type \in TypeArgs, handler \in HandlerArgs : QProcess(type, handler)
    \/ \E jobId \in IdArgs : QRemove(jobId)
    \/ \E jobId \in IdArgs : QGetJob(jobId)
    \/ \E status \in StatusArgs : QGetJobs(status)
    \/ QPause
    \/ QResume
    \/ QClose
    \/ mTick
    \/ rTick
    \/ \E id \in Ids, o \in Outcomes : Settles(id, o)
    \/ Advance

SpecQueue == Init /\ [][NextQueue]_vars

IsNonEmptyString(x) == x.typeof = "string" /\ x.truthy

IsObject(x) == x.typeof = "object" /\ x.truthy

IsFunction(x) == x.typeof = "function"

\* the call failed with an error and left the adapter as it was
Rejected == threw' /\ UNCHANGED adapterVars

\* C12: through the wrapper, add with an empty or non-string type or a
\* non-object payload, process with an empty type or a non-function handler,
\* remove and getJob with an empty id, and getJobs with an unknown status each
\* fail with an error and leave the adapter's store, indices, handler registry
\* and in-flight set unchanged.
ValidationLeavesNoTrace ==
    [][/\ (\E type \in TypeArgs, payload \in DataArgs, options \in OptionArgs :
              /\ ~IsNonEmptyString(type) \/ ~IsObject(payload)
              /\ QAdd(type, payload, options)) => Rejected
       /\ (\E type \in TypeArgs, handler \in HandlerArgs :
              /\ ~IsNonEmptyString(type) \/ ~IsFunction(handler)
              /\ QProcess(type, handler)) => Rejected
       /\ (\E jobId \in IdArgs :
              /\ ~IsNonEmptyString(jobId)
              /\ QRemove(jobId) \/ QGetJob(jobId)) => Rejected
       /\ (\E status \in StatusArgs :
              /\ status \notin Statuses
              /\ QGetJobs(status)) => Rejected]_vars

\* C12 witness: a call was rejected while a job was stored, a handler was
\* registered and an invocation was in flight.
ValidationLeavesNoTraceWitness ==
    /\ threw
    /\ InFlight # {}
    /\ handlers # << >>
    /\ \E id \in Ids : HasJob(id) /\ id \notin InFlight

Closes == mClose \/ rClose

\* C13: after close() no step starts a handler invocation, whatever is
\* submitted, registered or resumed afterwards, and a later close() changes
\* nothing.
NoDispatchAfterShutdown ==
    [][~isRunning =>
          /\ ~isRunning'
          /\ \A id \in Ids : ~Dispatches(id)
          /\ Closes => UNCHANGED vars]_vars

mIsHealthyUnlessPaused == isRunning /\ ~isPaused

mIsHealthy == isRunning

\* this.redis is assigned the client object in the constructor and never again
redisIsNull == FALSE

rIsHealthy == isRunning /\ ~redisIsNull

IsHealthy == IF adapter = "memory" THEN mIsHealthy ELSE rIsHealthy

\* C14: isHealthy() is true after construction, becomes false at close() and
\* is changed by no other step: not by pause or resume, not by the outcome of
\* a job, and never back to true.
HealthyUntilShutdown ==
    /\ IsHealthy
    /\ [][IF Closes THEN ~IsHealthy' ELSE IsHealthy' = IsHealthy]_vars

\* C14 witness: healthy while paused, with a failed job in the store.
HealthyUntilShutdownWitness ==
    /\ IsHealthy
    /\ isPaused
    /\ \E id \in Ids : id \in ListJobs("failed")

\* a call of an operation that writes: add, process, remove, pause or resume
WritingCall ==
    \/ \E t \in Types, p \in Priorities, d \in Delays : Adds(t, p, d)
    \/ \E t \in Types, fn \in HandlerFns : mProcess(t, fn) \/ rProcess(t, fn)
    \/ \E id \in Ids : Removes(id)
    \/ mPause \/ rPause
    \/ mResume \/ rResume

\* C15: after close() every operation other than isHealthy fails and leaves
\* the state unchanged; in particular add creates no job record.
NotRunningAfterShutdown ==
    [][(~isRunning /\ WritingCall) =>
          /\ UNCHANGED adapterVars
          /\ \A id \in Ids : HasJob(id)' => HasJob(id)]_vars

\* ------------------------------------------------------ getJobs and getStats
mGetStats(status) ==
    Cardinality({ i \in DOMAIN jobs : mGetJobStatus(jobs[i], i) = status })

\* the waiting lists of the handler types, one after the other in Map order
RECURSIVE ConcatLists(_)
ConcatLists(types) ==
    IF types = << >> THEN << >>
    ELSE lists[Head(types)] \o ConcatLists(Tail(types))

\* getJobs: the ids collected for a status
rJobIds(status) ==
    CASE status = "waiting" -> ConcatLists(HandlerKeys)
      [] status = "delayed" -> [k \in 1..Len(zDelayed) |-> zDelayed[k].id]
      [] status = "active" -> IdsInOrder(zActive, 1)
      [] status = "completed" -> IdsInOrder(zCompleted, 1)
      [] status = "failed" -> IdsInOrder(zFailed, 1)

\* getJobs: the ids whose record getJob finds
rGetJobsList(status) == FilterSeq(rJobIds(status), DOMAIN data)

getQueueSize == Len(ConcatLists(HandlerKeys))

rGetStats(status) ==
    CASE status = "waiting" -> getQueueSize
      [] status = "delayed" -> Len(zDelayed)
      [] status = "active" -> Cardinality(zActive)
      [] status = "completed" -> Cardinality(zCompleted)
      [] status = "failed" -> Cardinality(zFailed)

GetStats(status) == IF adapter = "memory" THEN mGetStats(status) ELSE rGetStats(status)

\* the number of jobs getJobs(status) returns
GetJobsLength(status) ==
    IF adapter = "memory" THEN Len(mGetJobs(status)) ELSE Len(rGetJobsList(status))

\* C16: for each status, the count getStats() gives equals the number of jobs
\* getJobs(status) returns in the same state.
StatsAgreeWithListJobs == \A status \in Statuses : GetStats(status) = GetJobsLength(status)

\* one firing of the interval callback
Tick == mTick \/ rTick

\* a stored job submitted with a delay that has elapsed and never dispatched
DelayElapsed(id) ==
    /\ HasJob(id)
    /\ GetJob(id).delay > 0
    /\ now >= GetJob(id).createdAt + GetJob(id).delay
    /\ GetJob(id).attempts = 0

\* C17: while the queue is paused, a job whose delay has elapsed is listed as
\* waiting and no longer as delayed after one tick (and no tick dispatches it).
\* Stated for the jobs whose type has a handler, which both adapters list.
PromotionWhilePaused ==
    \A id \in Ids :
       (isPaused /\ isRunning /\ DelayElapsed(id) /\ GetJob(id).type \in HandlerTypes) =>
          ENABLED (/\ Tick
                   /\ id \in ListJobs("waiting")'
                   /\ id \notin ListJobs("delayed")'
                   /\ id \notin InFlight')

\* add() never reads options.attempts, so every submitted job is also a job
\* submitted with attempts: n, for each n
AttemptsOptions == 2..MaxAttempts

\* C18: a job submitted with option attempts: n whose handler failed fewer than
\* n times is invoked again; so a running, unpaused queue is never left with
\* such a job, a handler for its type, and no tick, settlement or passing of
\* time that changes anything.
RetryOnFailure ==
    \A id \in Ids, n \in AttemptsOptions :
       (/\ LoopGate
        /\ HasJob(id)
        /\ id \in ListJobs("failed")
        /\ GetJob(id).attempts < n
        /\ GetJob(id).type \in HandlerTypes) => ENABLED << Progress >>_vars

\* C19: a handler is invoked at most once for a job, whatever the invocation
\* settles with: a dispatched job had attempts 0, attempts never exceeds 1,
\* and processedAt, once set, does not change.
AtMostOnce ==
    [][\A id \in Ids :
         /\ Dispatches(id) => inflight'[id].job.attempts = 1
         /\ (HasJob(id) /\ HasJob(id)') =>
               /\ GetJob(id)'.attempts <= 1
               /\ GetJob(id).processedAt # NoDate =>
                     GetJob(id)'.processedAt = GetJob(id).processedAt]_vars

\* getJobs(status) returns the job
Listed(id, status) ==
    IF adapter = "memory"
    THEN id \in DOMAIN jobs /\ mGetJobStatus(jobs[id], id) = status
    ELSE id \in rStatusIds(status) /\ rHasJob(data, id)

\* a handler invocation for the stored job has settled: it was dispatched and
\* is not in flight
Settled(id) == HasJob(id) /\ GetJob(id).attempts >= 1 /\ id \notin InFlight

\* C20: once a handler invocation for a job has settled, no tick, settlement,
\* pause or resume changes the record's processedAt, attempts, completedAt or
\* failedReason or its status, and none dispatches the job again.
TerminalAbsorbing ==
    [][\A id \in Ids :
         Settled(id) =>
            \/ /\ HasJob(id)'
               /\ GetJob(id)' = GetJob(id)
               /\ ~Dispatches(id)
               /\ \A status \in Statuses : Listed(id, status)' <=> Listed(id, status)
            \/ ~ \/ Tick
                 \/ \E other \in Ids, o \in Outcomes : Settles(other, o)
                 \/ mPause \/ rPause \/ mResume \/ rResume]_vars

\* C21: no stored job record has both completedAt and failedReason set, and in
\* the Redis adapter no id is in both the completed and the failed set.
OutcomeExclusive ==
    /\ \A id \in Ids :
          HasJob(id) =>
             ~(GetJob(id).completedAt # NoDate /\ GetJob(id).failedReason # NoReason)
    /\ zCompleted \cap zFailed = {}

\* C22: a job's attempts is 0 at submission, grows by exactly 1 at each
\* dispatch of that job, together with processedAt being set, and is changed
\* by no other step.
AttemptsCountDispatches ==
    [][\A id \in Ids :
         /\ (id = nextId + 1 /\ \E t \in Types, p \in Priorities, d \in Delays : Adds(t, p, d))
               => HasJob(id)' /\ GetJob(id)'.attempts = 0
         /\ (HasJob(id) /\ HasJob(id)') =>
               IF Dispatches(id)
               THEN /\ GetJob(id)'.attempts = GetJob(id).attempts + 1
                    /\ GetJob(id)'.processedAt = now
               ELSE GetJob(id)'.attempts = GetJob(id).attempts]_vars

\* C22 witness: a job dispatched once has completed, and a job submitted at a
\* later time has not been dispatched.
AttemptsCountDispatchesWitness ==
    \E id \in Ids, other \in Ids :
       /\ HasJob(id) /\ HasJob(other)
       /\ GetJob(id).attempts = 1
       /\ GetJob(id).completedAt # NoDate
       /\ GetJob(other).attempts = 0
       /\ GetJob(other).createdAt > GetJob(id).completedAt

\* C23: after a tick of a running, unpaused queue either the number of
\* invocations in flight equals the ceiling or no waiting job with a registered
\* handler remains.
TickFillsFreeSlots ==
    [][(LoopGate /\ Tick) =>
          \/ Cardinality(InFlight') = concurrency
          \/ ~ \E id \in Ids : ReadyToRun(id)']_vars

\* C23 as amended: a tick starts at most one handler invocation, and none when
\* the number of invocations in flight has reached the ceiling.
TickDispatchesAtMostOne ==
    [][Tick =>
          /\ Cardinality(InFlight' \ InFlight) <= 1
          /\ Cardinality(InFlight) >= concurrency => InFlight' = InFlight]_vars

\* C23 witness: with ceiling 2, one job was dispatched while another job of its
\* type, submitted before that tick, is still waiting and a slot is free.
TickDispatchesAtMostOneWitness ==
    /\ concurrency = 2
    /\ Cardinality(InFlight) = 1
    /\ \E id \in InFlight, other \in Ids :
          /\ HasJob(id)
          /\ ReadyToRun(other)
          /\ GetJob(other).type = GetJob(id).type
          /\ GetJob(other).delay = 0
          /\ GetJob(other).attempts = 0
          /\ GetJob(other).createdAt < GetJob(id).processedAt

\* position of a registered type in the iteration order of the handlers Map
RegistrationIndex(t) == CHOOSE k \in 1..Len(handlers) : handlers[k].type = t

RegisteredEarlier(t, u) ==
    /\ t \in HandlerTypes /\ u \in HandlerTypes
    /\ RegistrationIndex(t) < RegistrationIndex(u)

\* C24: when a tick dispatches a job, no waiting job with a registered handler
\* belongs to a type registered earlier than the dispatched job's type.
DispatchInRegistrationOrder ==
    [][\A id \in Ids :
         Dispatches(id) =>
            \A other \in Ids :
               ReadyToRun(other) =>
                  ~RegisteredEarlier(GetJob(other).type, inflight'[id].job.type)]_vars

\* C24 as amended: the Redis adapter dispatches from the earliest registered
\* type that has a waiting job; the in-memory adapter dispatches a job of the
\* highest priority among all waiting jobs, whatever their types.
DispatchPolicyAcrossTypes ==
    [][\A id \in Ids :
         Dispatches(id) =>
            \A other \in Ids :
               ReadyToRun(other) =>
                  IF adapter = "redis"
                  THEN ~RegisteredEarlier(GetJob(other).type, inflight'[id].job.type)
                  ELSE GetJob(other).priority <= inflight'[id].job.priority]_vars

\* C24 witness: in the Redis adapter a job of the earlier-registered type is in
\* flight while a job of higher priority of the later-registered type,
\* submitted before that dispatch, is still waiting.
DispatchPolicyAcrossTypesWitness ==
    /\ adapter = "redis"
    /\ \E id \in InFlight, other \in Ids :
          /\ ReadyToRun(other)
          /\ RegisteredEarlier(inflight[id].job.type, GetJob(other).type)
          /\ GetJob(other).priority > inflight[id].job.priority
          /\ GetJob(other).delay = 0
          /\ GetJob(other).createdAt < inflight[id].job.processedAt

\* the moment a job's delay expires: the earliest time it can be ready
ReadyAt(job) == job.createdAt + job.delay

\* C25: when a tick dispatches a job for the first time, no waiting job of the
\* same type and priority that has never run became ready strictly earlier.
FifoTieBreak ==
    [][\A id \in Ids :
         Dispatches(id) =>
            \A other \in Ids :
               (/\ ReadyToRun(other)
                /\ GetJob(other).type = inflight'[id].job.type
                /\ GetJob(other).priority = inflight'[id].job.priority
                /\ GetJob(other).attempts = 0
                /\ inflight'[id].job.attempts = 1)
                  => ReadyAt(GetJob(other)) >= ReadyAt(inflight'[id].job)]_vars

\* C26: while the queue runs, a stored job that was not removed and whose type
\* has no handler has attempts 0 and no processedAt, is not in flight and not
\* listed as active, and, once any delay has elapsed, is listed as waiting and
\* counted in the waiting statistic.
HandlerlessStaysWaiting ==
    \A id \in Ids :
       (/\ isRunning
        /\ HasJob(id)
        /\ id \notin removed
        /\ GetJob(id).type \notin HandlerTypes) =>
          /\ GetJob(id).attempts = 0
          /\ GetJob(id).processedAt = NoDate
          /\ id \notin InFlight
          /\ id \notin ListJobs("active")
          /\ now >= ReadyAt(GetJob(id)) =>
                /\ id \in ListJobs("waiting")
                /\ GetStats("waiting") >= 1

\* C27: no tick starts a handler for an id whose removal has returned true; in
\* particular not for a job removed while it was delayed or waiting.
RemovedNeverDispatched ==
    [][\A id \in removed : ~Dispatches(id)]_vars

\* C27 witness: a job removed while waiting is still the head of the list the
\* next tick of the Redis adapter pops, with a handler registered and a free slot.
RemovedNeverDispatchedWitness ==
    /\ adapter = "redis"
    /\ LoopGate /\ ~AtCapacity
    /\ rPoppable # << >>
    /\ Head(lists[Head(rPoppable)]) \in removed
    /\ ~HasJob(Head(lists[Head(rPoppable)]))

\* C28: right after remove(id) of the Redis adapter the id is in no waiting
\* list and in none of the delayed, active, completed and failed sets.
RemovalCleansEveryIndex ==
    [][\A id \in Ids :
         rRemove(id) =>
            /\ \A t \in Types : id \notin SeqToSet(lists'[t])
            /\ id \notin ZMembers(zDelayed')
            /\ id \notin zActive'
            /\ id \notin zCompleted'
            /\ id \notin zFailed']_vars

\* C29: the processing set only holds ids whose handler invocation is running,
\* and the step in which an invocation settles (its id leaves the running
\* invocations), whatever the outcome, takes its id out of the set and leaves a
\* free slot.
SlotsReleased ==
    /\ [](processing \subseteq InFlight)
    /\ [][\A id \in InFlight \ InFlight' :
            /\ id \notin processing'
            /\ Cardinality(processing') < ConcurrencyLimit]_vars

\* C29 witness: a handler rejected, its slot is free again and a later tick has
\* dispatched the next job.
SlotsReleasedWitness ==
    \E id \in Ids, other \in InFlight :
       /\ HasJob(id)
       /\ Truthy(GetJob(id).failedReason)
       /\ id \notin processing
       /\ other \in processing
       /\ inflight[other].job.processedAt > GetJob(id).processedAt

\* the delayed ids whose record exists and whose ready-at time has come
DueIds ==
    { id \in ZMembers(zDelayed) :
         rHasJob(data, id) /\ ReadyAt(rGetJob(data, id)) <= now }

DueIdsOfType(t) == { id \in DueIds : rGetJob(data, id).type = t }

\* list after is list before followed by each id of the set moved exactly once
AppendedOnce(before, after, moved) ==
    /\ Len(after) = Len(before) + Cardinality(moved)
    /\ SubSeq(after, 1, Len(before)) = before
    /\ SeqToSet(SubSeq(after, Len(before) + 1, Len(after))) = moved

\* C30: a tick of the running, unpaused Redis adapter takes exactly the due ids
\* out of the delayed set, keeping the others in place, appends each due id
\* once to the list of its type (behind what the list held, less the head the
\* dispatch step of the same tick may have popped), and changes no record
\* other than that of the job it dispatches.
PromotionIsIndexMove ==
    [][(LoopGate /\ rTick) =>
          /\ zDelayed' = SelectSeq(zDelayed, LAMBDA e : e.id \notin DueIds)
          /\ \A t \in Types :
                \/ AppendedOnce(lists[t], lists'[t], DueIdsOfType(t))
                \/ /\ lists[t] # << >>
                   /\ AppendedOnce(Tail(lists[t]), lists'[t], DueIdsOfType(t))
          /\ \A id \in DOMAIN data :
                ~Dispatches(id) => id \in DOMAIN data' /\ data'[id] = data[id]
          /\ \A id \in DueIds : ~Dispatches(id)]_vars

\* C30 witness: a job submitted with a delay stands, never dispatched, in its
\* type's list behind a job that was submitted after it without delay.
PromotionIsIndexMoveWitness ==
    /\ adapter = "redis"
    /\ \E id \in Ids, other \in Ids :
          /\ rHasJob(data, id) /\ rHasJob(data, other)
          /\ id < other
          /\ rGetJob(data, id).delay > 0
          /\ rGetJob(data, other).delay = 0
          /\ rGetJob(data, id).attempts = 0
          /\ rGetJob(data, id).processedAt = NoDate
          /\ id \notin ZMembers(zDelayed)
          /\ \E t \in Types : lists[t] = << other, id >>

\* C31: a job record that is stored before a step and gone after it was taken
\* out by remove(id); every other step keeps each record, and a record listed
\* as failed stays listed as failed.
NoSilentDiscard ==
    [][\A id \in Ids :
         HasJob(id) =>
            \/ /\ HasJob(id)'
               /\ id \in ListJobs("failed") => id \in ListJobs("failed")'
            \/ Removes(id)]_vars

\* C32: a handler invocation that has not settled keeps its job, unless the
\* job is removed, listed as active and in the processing set after every
\* step, and while as many invocations run as the ceiling allows no step
\* dispatches a job.
HungHandlerKeepsSlot ==
    [][/\ \A id \in InFlight \cap InFlight' :
             (HasJob(id) /\ ~Removes(id)) =>
                /\ HasJob(id)'
                /\ id \in processing'
                /\ id \in ListJobs("active")'
       /\ Cardinality(InFlight) >= ConcurrencyLimit =>
             \A id \in Ids : ~Dispatches(id)]_vars

\* ------------------------------------------- two handlers for the same type
\* two distinct handler functions, so that a registration can replace one
TwoHandlerFns == {"h1", "h2"}

\* process(type, handler) of either adapter
Registers(t, fn) == mProcess(t, fn) \/ rProcess(t, fn)

InitHandlers == InitWith(Adapters, {MaxConcurrency})

NextHandlers ==
    \/ \E t \in Types : Adds(t, 0, 0)
    \/ \E t \in Types, fn \in TwoHandlerFns : Registers(t, fn)
    \/ \E id \in Ids : Removes(id)
    \/ Tick
    \/ \E id \in Ids, o \in Outcomes : Settles(id, o)
    \/ Closes
    \/ Advance

SpecHandlers == InitHandlers /\ [][NextHandlers]_vars

\* the handler registered for type t, or none
HandlerOf(t) == IF t \in HandlerTypes THEN HandlersGet(t) ELSE "none"

\* C33: process(t, fn) can always be called and makes fn the handler of t; a
\* type's handler changes only by a process call for that type (or by close),
\* so the handlers of the other types stay as they were; a type has one entry;
\* and a dispatched job is passed to the handler registered for its type at
\* that moment, that is, to the last one registered.
LastRegistrationWins ==
    /\ [](\A t \in Types, fn \in TwoHandlerFns :
             ENABLED (Registers(t, fn) /\ HandlerOf(t)' = fn))
    /\ [][/\ \A t \in Types :
                HandlerOf(t)' # HandlerOf(t) =>
                   \/ \E fn \in TwoHandlerFns : Registers(t, fn) /\ HandlerOf(t)' = fn
                   \/ Closes
          /\ \A k \in 1..Len(handlers'), l \in 1..Len(handlers') :
                handlers'[k].type = handlers'[l].type => k = l
          /\ \A id \in Ids :
                Dispatches(id) =>
                   inflight'[id].fn = HandlerOf(inflight'[id].job.type)]_vars

\* C33 witness: two jobs of one type are in flight, the earlier one in the
\* handler registered first, the later one in the handler that replaced it and
\* is the registered one now.
LastRegistrationWinsWitness ==
    \E id \in InFlight, other \in InFlight :
       /\ inflight[id].job.type = inflight[other].job.type
       /\ inflight[id].job.processedAt < inflight[other].job.processedAt
       /\ inflight[id].fn = "h1"
       /\ inflight[other].fn = "h2"
       /\ HandlerOf(inflight[other].job.type) = "h2"

\* ------------------------------------------------ generateId may repeat an id
\* generateId is Date.now() joined with nine base-36 digits of Math.random():
\* nothing keeps it from returning the id of a job created in the same
\* millisecond.  These are the add calls in which it does, for a stored job
\* that was never dispatched; add has no check and stores under the same key.
mAddColliding(id, type, priority, delay) ==
    /\ adapter = "memory"
    /\ id \in DOMAIN jobs
    /\ jobs[id].createdAt = now
    /\ jobs[id].attempts = 0
    /\ jobs' = PutKey(jobs, id, NewJob(type, priority, delay))
    /\ threw' = FALSE
    /\ UNCHANGED << adapter, concurrency, now, nextId, redisVars, handlers, processing,
                    isPaused, isRunning, inflight, removed >>

NextIds ==
    \/ \E t \in Types, p \in Priorities, d \in Delays : mAdd(t, p, d)
    \/ \E id \in Ids, t \in Types, p \in Priorities, d \in Delays :
          mAddColliding(id, t, p, d)
    \/ \E t \in Types : mProcess(t, "h1")
    \/ \E id \in Ids : mRemove(id)
    \/ mTick
    \/ \E id \in Ids, o \in Outcomes : mSettle(id, o)
    \/ Advance

SpecIds == InitMem /\ [][NextIds]_vars

\* the ids getJob finds a record for
Stored == { id \in Ids : HasJob(id) }

\* C34: an add call, whatever id generateId gives it, either stores one more
\* record and leaves every record that was stored as it was, or it fails and
\* changes nothing.
SubmitNeverOverwrites ==
    [][\/ /\ \A id \in Stored : HasJob(id)' /\ GetJob(id)' = GetJob(id)
          /\ \/ Cardinality(Stored') = Cardinality(Stored) + 1
             \/ UNCHANGED adapterVars
       \/ ~ \E t \in Types, p \in Priorities, d \in Delays :
               \/ \E id \in Ids : mAddColliding(id, t, p, d)
               \/ Adds(t, p, d)]_vars

\* C35: in the in-memory adapter, whenever the queue runs unpaused, a slot is
\* free and some waiting job has a registered handler, the tick dispatches a job.
NoHeadOfLineBlocking ==
    (/\ adapter = "memory"
     /\ LoopGate
     /\ Cardinality(processing) < ConcurrencyLimit
     /\ \E id \in Ids : ReadyToRun(id)
     /\ \A id \in Ids : HasJob(id) => GetJob(id).attempts < MaxAttempts)
       => ENABLED (mTick /\ \E id \in Ids : Dispatches(id))

\* how often id occurs in a list
Occurrences(list, id) == Cardinality({ k \in 1..Len(list) : list[k] = id })

\* the number of index entries that hold id: each position in a waiting list
\* and each of the delayed, active, completed and failed sets
IndexEntries(id) ==
    Occurrences(ConcatLists(<< "a", "b" >>), id)
       + (IF id \in ZMembers(zDelayed) THEN 1 ELSE 0)
       + (IF id \in zActive THEN 1 ELSE 0)
       + (IF id \in zCompleted THEN 1 ELSE 0)
       + (IF id \in zFailed THEN 1 ELSE 0)

\* C36: in the Redis adapter every id is held by at most one index entry.
IndexExclusive == \A id \in Ids : IndexEntries(id) <= 1

\* C36 witness: in the Redis adapter a job submitted with a delay has gone
\* through the delayed set, its waiting list and the active set and is now in
\* the failed set only, while another job is active.
IndexExclusiveWitness ==
    /\ adapter = "redis"
    /\ \E id \in zFailed, other \in zActive :
          /\ rHasJob(data, id)
          /\ rGetJob(data, id).delay > 0
          /\ IndexEntries(id) = 1
          /\ IndexEntries(other) = 1

\* C37: the five counts of getStats() add up to the number of stored records.
StatusesPartitionStore ==
    GetStats("waiting") + GetStats("active") + GetStats("completed")
       + GetStats("failed") + GetStats("delayed") = Cardinality(Stored)

\* C38: a step that changes the paused flag changes nothing else; and while the
\* queue is paused a job whose handler invocation goes on stays listed as
\* active, and the step in which the invocation settles leaves the queue
\* paused, frees the slot and leaves the job completed or failed with its
\* completedAt or failedReason recorded.
PauseKeepsInFlightWork ==
    [][/\ isPaused' # isPaused =>
             UNCHANGED << adapter, concurrency, now, nextId, jobs, redisVars, handlers,
                          processing, isRunning, inflight, removed >>
       /\ isPaused =>
             \A id \in InFlight :
                IF id \in InFlight'
                THEN (HasJob(id) /\ HasJob(id)') => id \in ListJobs("active")'
                ELSE /\ isPaused'
                     /\ id \notin processing'
                     /\ HasJob(id) =>
                           /\ HasJob(id)'
                           /\ Terminal(id)'
                           /\ \/ GetJob(id)'.completedAt # NoDate
                              \/ GetJob(id)'.failedReason # NoReason]_vars

====
